---- MODULE Spec2Model ----
(***************************************************************************)
(* AudioGuideApp: the arrival tracker (LocationService), and the nearby    *)
(* queries of PreprocessedDataService and DatabaseService.                 *)
(*                                                                         *)
(* Coordinates.  A latitude is an integer number of metres of meridian arc *)
(* (one unit is 1/EarthRadius radian), and every position of the model     *)
(* lies on the meridian Lon0.  For two positions on one meridian the       *)
(* haversine formula of calculateDistance gives                            *)
(*   a = sin^2(dphi/2),  c = 2 atan2(sqrt a, sqrt(1-a)) = |dphi|,          *)
(*   d = R c = |lat2 - lat1|   (for |dphi| <= pi),                         *)
(* which is what calculateDistance computes here.  A coordinate that is    *)
(* missing in the platform's location object is undefined in JavaScript,   *)
(* arithmetic on it gives NaN and every comparison with NaN is false.      *)
(***************************************************************************)
EXTENDS Integers, Sequences, FiniteSets, TLC

VARIABLES
    table,                  \* rows of points_of_interest, as SELECT * returns them
    allPoints,              \* PreprocessedDataService.allPoints
    categoryData,           \* PreprocessedDataService.categoryData
    currentLocation,        \* LocationService.currentLocation
    isTracking,             \* LocationService.isTracking
    onNearbyPointCallback,  \* LocationService.onNearbyPointCallback
    triggeredPoints,        \* LocationService.triggeredPoints
    locationSubscription,   \* LocationService.locationSubscription
    activeSubscriptions,    \* subscriptions the platform still delivers positions to
    watchPending,           \* startLocationTracking calls suspended at await watchPositionAsync
    checkPending,           \* checkNearbyPoints calls suspended at await getAllPoints(),
                            \* each with the location its position callback was given
    query,                  \* the last nearby query made: its operation and arguments
    result,                 \* the sequence that query returned
    fired,                  \* history: ids the callback was invoked with by the last
                            \* run of checkNearbyPoints, in order
    lastSeen,               \* history: location read by the last processed update of the session
    events,                 \* history: per id, callback invocations in this session
    entries,                \* history: per id, OUTSIDE -> INSIDE entries in this session
    heldAtStop,             \* history: triggeredPoints when tracking was last stopped
    repeated,               \* history: the last processed update read the location
                            \* the one before it in this session had read
    nUpdates,               \* history: position callbacks delivered so far
    nStarts,                \* history: watchPositionAsync calls made so far
    startCalls,             \* history: counted calls of startLocationTracking
    dbPromise,              \* DatabaseService dbPromise: null, pending, resolved or rejected
    loading,                \* the parsed points initDatabase has still to insert
    stages,                 \* the databases initDatabase has turned to, in order; the
                            \* last one is the one it works on, or has returned
    waiting,                \* DatabaseService calls suspended at await getDbPromise()
    initStarts,             \* history: calls of DatabaseService initDatabase so far
    earlyReads,             \* history: reads of the table made before initDatabase completed
    sqliteDb,               \* SQLiteDataService.db is not null
    isInitialized,          \* SQLiteDataService.isInitialized
    sqliteStep,             \* the await at which SQLiteDataService.initDatabase stands
    sqliteRows,             \* rows of the points_of_interest of SQLiteDataService
    cacheFiles,             \* the files of the audio-cache directory
    cleanup,                \* history: the last run of cleanupCache
    downloads,              \* history: files downloaded into the cache so far
    sound,                  \* AudioService.sound
    isPlaying,              \* AudioService.isPlaying
    loadedSounds,           \* the sounds expo-av holds loaded
    audioCalls,             \* the calls of AudioService under way, each at its await
    nSounds                 \* history: sounds created so far

vars == <<table, allPoints, categoryData, currentLocation, isTracking, onNearbyPointCallback,
          triggeredPoints, locationSubscription, activeSubscriptions, watchPending,
          checkPending, query, result, fired, lastSeen, events, entries,
          heldAtStop, repeated, nUpdates, nStarts, startCalls, dbPromise, loading, stages, waiting,
          initStarts, earlyReads, sqliteDb, isInitialized, sqliteStep,
          sqliteRows, cacheFiles, cleanup, downloads, sound, isPlaying,
          loadedSounds, audioCalls, nSounds>>

databaseVars == <<dbPromise, loading, stages, waiting, initStarts, earlyReads>>
sqliteVars == <<sqliteDb, isInitialized, sqliteStep, sqliteRows>>
cacheVars == <<cacheFiles, cleanup, downloads>>
audioVars == <<sound, isPlaying, loadedSounds, audioCalls, nSounds>>
loadVars == <<databaseVars, sqliteVars, categoryData, cacheVars, audioVars>>

historyVars == <<fired, lastSeen, events, entries, heldAtStop, repeated, nUpdates,
                 nStarts, startCalls>>

----------------------------------------------------------------------------
(* Bounds of the model *)

MaxPoints == 2      \* points in a catalog
MaxUpdates == 3     \* position callbacks in one behaviour
MaxStarts == 2      \* watchPositionAsync calls in one behaviour
MaxPending == 2     \* checkNearbyPoints calls suspended at one time
MaxExcess == 1      \* points a large catalog has above or below a cap
MaxCalls == 2       \* counted calls of startLocationTracking in one behaviour
MaxDownloads == 5   \* files downloaded into the audio cache in one behaviour
MaxSounds == 2      \* sounds created in one behaviour

(* Program constants *)

ArrivalRadius == 1000       \* LocationService.checkNearbyPoints: distance <= 1000
EarthRadius == 6371000      \* calculateDistance: R = 6371e3
NearbyCap == 50             \* PreprocessedDataService.getNearbyPoints: slice(0, 50)
CategoryCap == 30           \* getNearbyPointsByCategory: slice(0, 30)

NULL == "null"
NaN == -1                   \* the value of arithmetic on a missing coordinate
Lon0 == 0

\* 90 degrees of latitude in metres of arc: (pi / 2) * R, with pi ~ 355 / 113
MaxLatitude == (EarthRadius \div 226) * 355

Abs(x) == IF x < 0 THEN 0 - x ELSE x
Min(a, b) == IF a <= b THEN a ELSE b

\* JavaScript's a <= b on numbers: false when either side is NaN
LessEq(a, b) == a # NaN /\ b # NaN /\ a <= b

----------------------------------------------------------------------------
(* Data *)

Categories == {"historical", "nature"}
Ids == 1 .. MaxPoints
\* positions on the meridian: at a point, on the rim of its arrival radius,
\* and outside it
Lats == {0, ArrivalRadius, 2 * ArrivalRadius}

Points == [id : Ids, category : Categories, latitude : Lats, longitude : {Lon0}]

\* expo-location position objects: on the grid, out of range, or with a
\* missing coordinate
NoLocation == [null |-> TRUE]
NoSubscription == [null |-> TRUE]
GridLocations == [latitude : Lats, longitude : {Lon0}]
OutOfRangeLocation == [latitude |-> MaxLatitude + ArrivalRadius, longitude |-> Lon0]
MissingLocation == [latitude |-> NaN, longitude |-> Lon0]
\* positions a watch callback delivers
UpdateLocations == GridLocations \cup {OutOfRangeLocation}
\* positions a caller may pass to a nearby query
QueryLocations == GridLocations \cup {OutOfRangeLocation, MissingLocation}

ValidLocation(loc) ==
    /\ loc # NoLocation
    /\ loc.latitude # NaN /\ loc.longitude # NaN
    /\ Abs(loc.latitude) <= MaxLatitude
    /\ Abs(loc.longitude) <= 2 * MaxLatitude

SeqsUpTo(S, n) == UNION {[1 .. k -> S] : k \in 0 .. n}

\* points_of_interest: id INTEGER PRIMARY KEY AUTOINCREMENT, rows inserted
\* one by one into an emptied table and read back in rowid order
Tables == {t \in SeqsUpTo(Points, MaxPoints) : \A i \in DOMAIN t : t[i].id = i}

\* the tables the tracker runs on: checkNearbyPoints reads the id, latitude
\* and longitude of a row only, and a row at 0 or at ArrivalRadius is at
\* distance 0, = radius or > radius of the positions an update can give
TrackerTables ==
    {t \in Tables : \A i \in DOMAIN t :
        t[i].category = "historical" /\ t[i].latitude \in {0, ArrivalRadius}}

\* points-with-audio.json: points with distinct ids, in any order
Catalogs ==
    {c \in SeqsUpTo(Points, MaxPoints) :
        \A i, j \in DOMAIN c : c[i].id = c[j].id => i = j}

Callbacks == {"handleNearbyPoint"}

\* a faulty variant: a category left out of the list
allCategories_WithoutNature ==
    <<"historical", "religious", "children", "culture", "tourism",
      "architecture", "amenity", "leisure">>

\* PreprocessedDataService constructor, line 56
allCategories ==
    <<"historical", "religious", "children", "nature", "culture", "tourism",
      "architecture", "amenity", "leisure">>

\* constructor, lines 55-60: a bucket per listed category
CategoryIndex(points) ==
    [category \in {allCategories[i] : i \in DOMAIN allCategories} |->
        SelectSeq(points, LAMBDA point : point.category = category)]

\* constructor, line 68: this.categoryData = {} after a failed load
EmptyIndex == [category \in {} |-> <<>>]

\* the arguments of a nearby query: a radius in metres and a category tag,
\* which may be one that no point carries
Radii == {ArrivalRadius, 2 * ArrivalRadius}
QueryCategories == Categories \cup {"unknown"}

----------------------------------------------------------------------------
(* calculateDistance (LocationService, PreprocessedDataService and         *)
(* DatabaseService hold the same haversine formula)                        *)

calculateDistance(lat1, lon1, lat2, lon2) ==
    IF lat1 = NaN \/ lon1 = NaN \/ lat2 = NaN \/ lon2 = NaN
    THEN NaN
    ELSE Abs(lat2 - lat1)       \* lon1 = lon2: d = R * |dphi|

DistanceTo(loc, point) ==
    calculateDistance(loc.latitude, loc.longitude, point.latitude, point.longitude)

----------------------------------------------------------------------------
(* LocationService.checkNearbyPoints, after await getAllPoints()           *)

\* a faulty variant of line 96: distance < 1000
WithinArrivalRadius_Strict(distance) == distance # NaN /\ distance < ArrivalRadius

\* line 96: distance <= 1000
WithinArrivalRadius(distance) == LessEq(distance, ArrivalRadius)

RECURSIVE FilterNearby(_, _, _)
\* lines 84-99: the points of allPts within the arrival radius of loc
FilterNearby(allPts, loc, i) ==
    IF i > Len(allPts) THEN <<>>
    ELSE IF WithinArrivalRadius(DistanceTo(loc, allPts[i]))
         THEN <<allPts[i]>> \o FilterNearby(allPts, loc, i + 1)
         ELSE FilterNearby(allPts, loc, i + 1)

NearbyPoints(allPts, loc) == FilterNearby(allPts, loc, 1)

PointIds(points) == {points[i].id : i \in DOMAIN points}

\* HomeScreen passes (point) => { handleNearbyPoint(point); } and
\* handleNearbyPoint is an async function: the call never throws
CallbackThrows(cb, point) == FALSE

\* a faulty variant of line 103: the has() test left out
NotTriggeredYet_Always(trig, id) == TRUE

\* line 103: !this.triggeredPoints.has(point.id)
NotTriggeredYet(trig, id) == id \notin trig

RECURSIVE FireLoop(_, _, _, _, _)
\* lines 101-107: add each nearby point that is not triggered yet and call
\* the callback with it; an exception (the callback is null, or it throws)
\* leaves the loop with the id already added
FireLoop(nearby, i, trig, cb, out) ==
    IF i > Len(nearby) THEN [triggered |-> trig, fired |-> out, completed |-> TRUE]
    ELSE IF ~NotTriggeredYet(trig, nearby[i].id)
         THEN FireLoop(nearby, i + 1, trig, cb, out)
    ELSE IF cb = NULL
         THEN [triggered |-> trig \cup {nearby[i].id}, fired |-> out,
               completed |-> FALSE]
    ELSE IF CallbackThrows(cb, nearby[i])
         THEN [triggered |-> trig \cup {nearby[i].id},
               fired |-> Append(out, nearby[i].id), completed |-> FALSE]
    ELSE FireLoop(nearby, i + 1, trig \cup {nearby[i].id}, cb,
                  Append(out, nearby[i].id))

\* faulty variants of lines 110-115: nothing forgotten, everything forgotten
Cleanup_KeepAll(trig, nearby) == trig
Cleanup_ForgetAll(trig, nearby) == {}

\* lines 110-115: forget the triggered ids that are not nearby any more
Cleanup(trig, nearby) == {id \in trig : id \in PointIds(nearby)}

\* lines 84-118: the new triggered set and the callback invocations made
CheckBody(allPts, loc, trig, cb) ==
    LET nearby == NearbyPoints(allPts, loc)
        r == FireLoop(nearby, 1, trig, cb, <<>>)
    IN  IF r.completed
        THEN [triggered |-> Cleanup(r.triggered, nearby), fired |-> r.fired]
        ELSE [triggered |-> r.triggered, fired |-> r.fired]     \* catch: log only

\* a faulty variant of line 47: the clear() left out
ClearedAtStart_Kept(trig) == trig

\* line 47: this.triggeredPoints.clear()
ClearedAtStart(trig) == {}

\* a variant of lines 68-75 that also empties triggeredPoints
KeptAtStop_Cleared(trig) == {}

\* lines 68-75: stopLocationTracking does not touch triggeredPoints
KeptAtStop(trig) == trig

----------------------------------------------------------------------------
(* History *)

NoQuery == [op |-> "none"]
ZeroCount == [id \in Ids |-> 0]

InsideIds(loc) == {id \in Ids : \E i \in DOMAIN table :
                      /\ table[i].id = id
                      /\ LessEq(DistanceTo(loc, table[i]), ArrivalRadius)}

\* ids inside at the last processed update of this session (none before it)
PrevInside == IF lastSeen = NoLocation THEN {} ELSE InsideIds(lastSeen)

CountIn(s, id) == Cardinality({i \in DOMAIN s : s[i] = id})

----------------------------------------------------------------------------
(* Initial state: the module is loaded, the catalog is in the table *)

InitTracker ==
    /\ currentLocation = NoLocation
    /\ isTracking = FALSE
    /\ onNearbyPointCallback = NULL
    /\ triggeredPoints = {}
    /\ locationSubscription = NoSubscription
    /\ activeSubscriptions = {}
    /\ watchPending = 0
    /\ checkPending = <<>>

\* the audio services: nothing cached, nothing loaded, no call under way
NoSound == [null |-> TRUE]
NoCleanup == [ran |-> FALSE]

InitMedia ==
    /\ cacheFiles = {}
    /\ cleanup = NoCleanup
    /\ downloads = 0
    /\ sound = NoSound
    /\ isPlaying = FALSE
    /\ loadedSounds = {}
    /\ audioCalls = <<>>
    /\ nSounds = 0

InitHistory ==
    /\ fired = <<>>
    /\ lastSeen = NoLocation
    /\ events = ZeroCount
    /\ entries = ZeroCount
    /\ heldAtStop = {}
    /\ repeated = FALSE
    /\ nUpdates = 0
    /\ nStarts = 0
    /\ startCalls = 0

\* initDatabase has completed and resolved dbPromise; SQLiteDataService has
\* been constructed and its initDatabase stands at its first await
InitLoaded ==
    /\ dbPromise = "resolved"
    /\ loading = <<>>
    /\ stages = <<"audioguide.db">>
    /\ waiting = <<>>
    /\ initStarts = 1
    /\ earlyReads = 0
    /\ sqliteDb = FALSE
    /\ isInitialized = FALSE
    /\ sqliteStep = "open"
    /\ sqliteRows = <<>>
    /\ categoryData = CategoryIndex(allPoints)

Init ==
    /\ table \in TrackerTables
    /\ allPoints = <<>>
    /\ query = NoQuery
    /\ result = <<>>
    /\ InitTracker
    /\ InitHistory
    /\ InitMedia
    /\ InitLoaded

----------------------------------------------------------------------------
(* LocationService *)

\* a faulty variant of line 43: the test left out
ReturnsAtOnce_Never(tracking) == FALSE

\* line 43: if (this.isTracking) return
ReturnsAtOnce(tracking) == tracking

\* lines 45-49, up to await watchPositionAsync
StartEffects(cb) ==
    /\ onNearbyPointCallback' = cb
    /\ isTracking' = TRUE
    /\ triggeredPoints' = ClearedAtStart(triggeredPoints)
    /\ watchPending' = watchPending + 1
    /\ nStarts' = nStarts + 1
    /\ fired' = <<>>
    /\ lastSeen' = NoLocation
    /\ events' = ZeroCount
    /\ entries' = ZeroCount
    /\ repeated' = FALSE
    /\ UNCHANGED <<loadVars, table, allPoints, query, result, currentLocation,
                   locationSubscription, activeSubscriptions, checkPending,
                   heldAtStop, nUpdates>>

\* startLocationTracking, lines 42-49, up to await watchPositionAsync
StartLocationTracking(cb) ==
    /\ ~ReturnsAtOnce(isTracking)
    /\ nStarts < MaxStarts
    /\ StartEffects(cb)
    /\ UNCHANGED startCalls

\* startLocationTracking, line 43: already tracking, return
StartWhileTracking(cb) ==
    /\ ReturnsAtOnce(isTracking)
    /\ UNCHANGED vars

\* watchPositionAsync resolves: line 49 assigns the new subscription
WatchResolved ==
    /\ watchPending > 0
    /\ watchPending' = watchPending - 1
    /\ LET sub == [watch |-> nStarts - watchPending + 1]
       IN  /\ locationSubscription' = sub
           /\ activeSubscriptions' = activeSubscriptions \cup {sub}
    /\ UNCHANGED <<loadVars, table, allPoints, query, result, currentLocation, isTracking,
                   onNearbyPointCallback, triggeredPoints, checkPending,
                   historyVars>>

\* stopLocationTracking, lines 68-75
StopLocationTracking ==
    /\ IF locationSubscription # NoSubscription
       THEN /\ activeSubscriptions' = activeSubscriptions \ {locationSubscription}
            /\ locationSubscription' = NoSubscription
       ELSE UNCHANGED <<activeSubscriptions, locationSubscription>>
    /\ isTracking' = FALSE
    /\ onNearbyPointCallback' = NULL
    /\ triggeredPoints' = KeptAtStop(triggeredPoints)
    /\ heldAtStop' = IF isTracking THEN triggeredPoints ELSE heldAtStop
    /\ UNCHANGED <<loadVars, table, allPoints, query, result, currentLocation, watchPending,
                   checkPending, fired, lastSeen, events, entries, repeated,
                   nUpdates, nStarts, startCalls>>

\* the position callback, lines 55-64, and checkNearbyPoints up to
\* await getAllPoints(), lines 77-82
PositionCallback(loc) ==
    /\ activeSubscriptions # {}
    /\ nUpdates < MaxUpdates
    /\ Len(checkPending) < MaxPending
    /\ currentLocation' = loc
    /\ checkPending' = IF onNearbyPointCallback = NULL
                       THEN checkPending
                       ELSE Append(checkPending, loc)
    /\ nUpdates' = nUpdates + 1
    /\ UNCHANGED <<loadVars, table, allPoints, query, result, isTracking, onNearbyPointCallback,
                   triggeredPoints, locationSubscription, activeSubscriptions,
                   watchPending, fired, lastSeen, events, entries, heldAtStop,
                   repeated, nStarts, startCalls>>

\* getAllPoints() resolves for the oldest suspended checkNearbyPoints, which
\* runs lines 84-118 without another await
CheckResumed ==
    /\ checkPending # <<>>
    /\ LET r == CheckBody(table, currentLocation, triggeredPoints,
                          onNearbyPointCallback)
           inside == InsideIds(currentLocation)
       IN  /\ triggeredPoints' = r.triggered
           /\ fired' = r.fired
           /\ events' = [id \in Ids |-> events[id] + CountIn(r.fired, id)]
           /\ entries' = [id \in Ids |->
                            IF isTracking /\ id \in inside /\ id \notin PrevInside
                            THEN entries[id] + 1 ELSE entries[id]]
    /\ lastSeen' = currentLocation
    /\ repeated' = (isTracking /\ lastSeen = currentLocation)
    /\ checkPending' = Tail(checkPending)
    /\ UNCHANGED <<loadVars, table, allPoints, query, result, currentLocation, isTracking,
                   onNearbyPointCallback, locationSubscription, activeSubscriptions,
                   watchPending, heldAtStop, nUpdates, nStarts, startCalls>>

TrackerNext ==
    \/ \E cb \in Callbacks : StartLocationTracking(cb)
    \/ \E cb \in Callbacks : StartWhileTracking(cb)
    \/ WatchResolved
    \/ StopLocationTracking
    \/ \E loc \in UpdateLocations : PositionCallback(loc)
    \/ CheckResumed

Next == TrackerNext

Spec == Init /\ [][Next]_vars

----------------------------------------------------------------------------
(* The nearby queries of PreprocessedDataService (over allPoints) and of   *)
(* DatabaseService (over the rows of points_of_interest)                   *)

\* .map(point => ({point, distance: calculateDistance(...)}))
WithDistances(points, loc) ==
    [i \in DOMAIN points |->
        [point |-> points[i], distance |-> DistanceTo(loc, points[i])]]

\* a faulty variant of lines 110 and 132: the filter left out
PreprocessedWithinRadius_All(distance, radiusInMeters) == TRUE

\* PreprocessedDataService lines 110 and 132: distance <= radiusInMeters
PreprocessedWithinRadius(distance, radiusInMeters) ==
    LessEq(distance, radiusInMeters)

\* DatabaseService lines 278 and 308: distance <= radiusInMeters
DatabaseWithinRadius(distance, radiusInMeters) ==
    LessEq(distance, radiusInMeters)

\* the comparator of lines 111 and 133, a.distance - b.distance: a is put
\* after b only when the difference is positive (NaN is not)
ComesAfter(a, b) ==
    a.distance # NaN /\ b.distance # NaN /\ a.distance - b.distance > 0

RECURSIVE InsertByDistance(_, _)
\* e is placed behind every entry of the sorted s that it does not precede
InsertByDistance(s, e) ==
    IF s = <<>> THEN <<e>>
    ELSE LET last == s[Len(s)]
         IN  IF ComesAfter(last, e)
             THEN Append(InsertByDistance(SubSeq(s, 1, Len(s) - 1), e), last)
             ELSE Append(s, e)

\* a faulty variant: the sort left out
SortByDistance_Unsorted(pairs) == pairs

RECURSIVE SortByDistance(_)
\* Array.prototype.sort with that comparator is stable
SortByDistance(pairs) ==
    IF pairs = <<>> THEN <<>>
    ELSE InsertByDistance(SortByDistance(SubSeq(pairs, 1, Len(pairs) - 1)),
                          pairs[Len(pairs)])

\* .slice(0, n)
Slice(s, n) == SubSeq(s, 1, Min(n, Len(s)))

\* .map(({point}) => point)
PointsOf(pairs) == [i \in DOMAIN pairs |-> pairs[i].point]

\* a faulty variant: the category test left out
WithCategory_All(points, category) == points

\* a faulty variant: a category that no point has is taken as no filter
WithCategory_UnknownAsAny(points, category) ==
    IF \E i \in DOMAIN points : points[i].category = category
    THEN SelectSeq(points, LAMBDA point : point.category = category)
    ELSE points

\* PreprocessedDataService.getPointsByCategory, lines 82-92, and the
\* WHERE category = ? of DatabaseService line 302
WithCategory(points, category) ==
    SelectSeq(points, LAMBDA point : point.category = category)

\* a faulty variant: this.allPoints itself is sorted
AllPointsAfterNearby_SortedInPlace(points, loc) ==
    PointsOf(SortByDistance(WithDistances(points, loc)))

\* what getNearbyPoints leaves in this.allPoints, lines 105-113: map builds
\* a new array, and filter, sort and slice work on that one
AllPointsAfterNearby(points, loc) == points

\* PreprocessedDataService.getNearbyPoints, lines 104-114
PreprocessedGetNearbyPoints(points, loc, radiusInMeters) ==
    LET inRadius == SelectSeq(WithDistances(points, loc),
                       LAMBDA e : PreprocessedWithinRadius(e.distance, radiusInMeters))
    IN  PointsOf(Slice(SortByDistance(inRadius), NearbyCap))

\* PreprocessedDataService.getNearbyPointsByCategory, lines 119-136
PreprocessedGetNearbyPointsByCategory(points, loc, category, radiusInMeters) ==
    LET categoryPoints == WithCategory(points, category)
        inRadius == SelectSeq(WithDistances(categoryPoints, loc),
                       LAMBDA e : PreprocessedWithinRadius(e.distance, radiusInMeters))
    IN  PointsOf(Slice(SortByDistance(inRadius), CategoryCap))

\* DatabaseService.getNearbyPoints, lines 267-287: the rows in table order
\* that pass the filter
DatabaseGetNearbyPoints(rows, loc, radiusInMeters) ==
    SelectSeq(rows, LAMBDA point :
        DatabaseWithinRadius(DistanceTo(loc, point), radiusInMeters))

\* DatabaseService.getNearbyPointsByCategory, lines 296-317
DatabaseGetNearbyPointsByCategory(rows, loc, category, radiusInMeters) ==
    SelectSeq(WithCategory(rows, category), LAMBDA point :
        DatabaseWithinRadius(DistanceTo(loc, point), radiusInMeters))

\* what a query was asked, kept beside what it returned
Asked(op, loc, category, radiusInMeters) ==
    [op |-> op, location |-> loc, category |-> category,
     radius |-> radiusInMeters]

QueryFrame ==
    UNCHANGED <<loadVars, table, currentLocation, isTracking,
                onNearbyPointCallback, triggeredPoints, locationSubscription,
                activeSubscriptions, watchPending, checkPending, historyVars>>

PreprocessedNearby(loc, radiusInMeters) ==
    /\ result' = PreprocessedGetNearbyPoints(allPoints, loc, radiusInMeters)
    /\ query' = Asked("PreprocessedDataService.getNearbyPoints", loc, "any",
                      radiusInMeters)
    /\ QueryFrame
    /\ allPoints' = AllPointsAfterNearby(allPoints, loc)

PreprocessedNearbyByCategory(loc, category, radiusInMeters) ==
    /\ result' = PreprocessedGetNearbyPointsByCategory(allPoints, loc, category,
                                                       radiusInMeters)
    /\ query' = Asked("PreprocessedDataService.getNearbyPointsByCategory", loc,
                      category, radiusInMeters)
    /\ QueryFrame
    /\ UNCHANGED allPoints

DatabaseNearby(loc, radiusInMeters) ==
    /\ result' = DatabaseGetNearbyPoints(table, loc, radiusInMeters)
    /\ query' = Asked("DatabaseService.getNearbyPoints", loc, "any",
                      radiusInMeters)
    /\ QueryFrame
    /\ UNCHANGED allPoints

DatabaseNearbyByCategory(loc, category, radiusInMeters) ==
    /\ result' = DatabaseGetNearbyPointsByCategory(table, loc, category,
                                                   radiusInMeters)
    /\ query' = Asked("DatabaseService.getNearbyPointsByCategory", loc,
                      category, radiusInMeters)
    /\ QueryFrame
    /\ UNCHANGED allPoints

\* the bundled catalog and the table hold the same kind of points; a
\* behaviour queries one of them
InitQuery ==
    /\ \/ allPoints \in Catalogs /\ table = <<>>
       \/ allPoints = <<>> /\ table \in Tables
    /\ query = NoQuery
    /\ result = <<>>
    /\ InitTracker
    /\ InitHistory
    /\ InitMedia
    /\ InitLoaded

QueryNext ==
    \/ \E loc \in QueryLocations, r \in Radii : PreprocessedNearby(loc, r)
    \/ \E loc \in QueryLocations, c \in QueryCategories, r \in Radii :
           PreprocessedNearbyByCategory(loc, c, r)
    \/ \E loc \in QueryLocations, r \in Radii : DatabaseNearby(loc, r)
    \/ \E loc \in QueryLocations, c \in QueryCategories, r \in Radii :
           DatabaseNearbyByCategory(loc, c, r)

SpecQuery == InitQuery /\ [][QueryNext]_vars

----------------------------------------------------------------------------
(* The queries that take a category: the two nearby queries above and the  *)
(* two listings                                                            *)

AskedListing(op, category) == [op |-> op, category |-> category]

\* PreprocessedDataService.getPointsByCategory, lines 82-92
PreprocessedPointsByCategory(category) ==
    /\ result' = WithCategory(allPoints, category)
    /\ query' = AskedListing("PreprocessedDataService.getPointsByCategory",
                             category)
    /\ QueryFrame
    /\ UNCHANGED allPoints

\* DatabaseService.getPointsByCategory, lines 362-375
DatabasePointsByCategory(category) ==
    /\ result' = WithCategory(table, category)
    /\ query' = AskedListing("DatabaseService.getPointsByCategory", category)
    /\ QueryFrame
    /\ UNCHANGED allPoints

CategoryNext ==
    \/ \E c \in QueryCategories : PreprocessedPointsByCategory(c)
    \/ \E c \in QueryCategories : DatabasePointsByCategory(c)
    \/ \E loc \in QueryLocations, c \in QueryCategories, r \in Radii :
           PreprocessedNearbyByCategory(loc, c, r)
    \/ \E loc \in QueryLocations, c \in QueryCategories, r \in Radii :
           DatabaseNearbyByCategory(loc, c, r)

SpecCategory == InitQuery /\ [][CategoryNext]_vars

----------------------------------------------------------------------------
(* The same queries over catalogs about as large as the caps: the bundled  *)
(* catalog has 5,681 points, far more than either cap                      *)

CapSizes == {cap + k : cap \in {CategoryCap, NearbyCap},
                       k \in (0 - MaxExcess) .. MaxExcess}

\* the points of a large catalog repeat a short pattern of latitudes and
\* of categories
LatitudePatterns == {<<0>>, <<2 * ArrivalRadius, 0, ArrivalRadius>>}
CategoryPatterns == {<<"historical">>, <<"historical", "nature">>}
Cycle(pattern, i) == pattern[((i - 1) % Len(pattern)) + 1]

LargeCatalog(n, lats, cats) ==
    [i \in 1 .. n |-> [id |-> i, category |-> Cycle(cats, i),
                        latitude |-> Cycle(lats, i), longitude |-> Lon0]]

LargeCatalogs ==
    {LargeCatalog(n, lats, cats) :
        n \in CapSizes, lats \in LatitudePatterns, cats \in CategoryPatterns}

\* the table was loaded from the same points
InitCap ==
    /\ allPoints \in LargeCatalogs
    /\ table = allPoints
    /\ query = NoQuery
    /\ result = <<>>
    /\ InitTracker
    /\ InitHistory
    /\ InitMedia
    /\ InitLoaded

SpecCap == InitCap /\ [][QueryNext]_vars

----------------------------------------------------------------------------
(* The arrival tracker's claims.  An update is processed when the          *)
(* checkNearbyPoints call its position callback made runs lines 84-118;    *)
(* the distance it sees is the distance to the location it reads there.    *)

\* a step that processes an update
CheckStep == Len(checkPending') < Len(checkPending)

C4_Claim ==
    [][CheckStep =>
          LET given == Head(checkPending)
          IN  /\ triggeredPoints' = InsideIds(given)
              /\ \A id \in Ids :
                    CountIn(fired', id) =
                        IF id \in InsideIds(given) /\ id \notin triggeredPoints
                        THEN 1 ELSE 0]_vars

\* C5 as claimed: whenever tracking is stopped the triggered set is empty
C5_Claim == ~isTracking => triggeredPoints = {}

\* C5 as amended: stopLocationTracking leaves the triggered set as it is, and
\* the startLocationTracking call that begins a session empties it
C5_ClearedAtStart ==
    [][/\ (isTracking /\ ~isTracking') => triggeredPoints' = triggeredPoints
       /\ (~isTracking /\ isTracking') => triggeredPoints' = {}]_vars

\* tracking was stopped with points triggered and has been started again
C5_Witness ==
    isTracking /\ heldAtStop # {} /\ lastSeen = NoLocation /\ triggeredPoints = {}

C8_Claim ==
    [][(currentLocation' # NoLocation /\ ~ValidLocation(currentLocation')) =>
          UNCHANGED <<currentLocation, triggeredPoints>>]_vars

----------------------------------------------------------------------------
(* Catalogs that are empty, not loaded yet or unreadable.                  *)
(* PreprocessedDataService's constructor may fail to load the bundle;      *)
(* SQLiteDataService (WazeService.ts) starts initDatabase in its           *)
(* constructor and does not wait for it; a read of DatabaseService's       *)
(* table may fail                                                          *)

\* the bundled points: PreprocessedDataService and SQLiteDataService both
\* take points-with-audio.json
Bundles == TrackerTables

\* PreprocessedDataService constructor, lines 45-70: the catch leaves []
PreprocessedLoad(loadOk, bundle) == IF loadOk THEN bundle ELSE <<>>

\* how a call ends: it returns an array, or an exception reaches the caller
Returns(array) == [returned |-> array, threw |-> FALSE]
Thrown == [returned |-> <<>>, threw |-> TRUE]

\* a faulty variant: the catch throws again
DatabaseCatch_Rethrow == Thrown

\* DatabaseService lines 283-286 and 313-316: catch (error) { return [] }
DatabaseCatch == Returns(<<>>)

\* a faulty variant: an open database is taken as an initialized one
SqliteReady_Opened(db, initialized) == db

\* WazeService.ts line 289: the query goes on only when
\* this.db && this.isInitialized
SqliteReady(db, initialized) == db /\ initialized

\* the orders in which a statement with ORDER BY distance may return rows:
\* SQL leaves the order of rows at the same distance open
Arrangements(rows, loc) ==
    {s \in [1 .. Len(rows) -> {rows[i] : i \in DOMAIN rows}] :
        /\ \A i, j \in DOMAIN s : i # j => s[i] # s[j]
        /\ \A i, j \in DOMAIN s :
              i < j => DistanceTo(loc, s[i]) <= DistanceTo(loc, s[j])}

\* WazeService.ts lines 292-310: the rows in the bounding box (a degree is
\* taken as 111000 m and is 111195 m, so the box is wider than the radius; a query latitude
\* beyond the poles makes lonDelta negative and the box empty) whose
\* distance is within the radius, ordered by distance, 50 at most
SqliteSelectNearby(rows, loc, radiusInMeters) ==
    LET inBox(point) ==
            /\ loc.latitude # NaN
            /\ Abs(loc.latitude) < MaxLatitude
            /\ Abs(point.latitude - loc.latitude) * 111000
                   <= radiusInMeters * 111195
        kept == SelectSeq(rows, LAMBDA point :
                    /\ inBox(point)
                    /\ LessEq(DistanceTo(loc, point), radiusInMeters))
    IN  {Slice(s, NearbyCap) : s \in Arrangements(kept, loc)}

\* SQLiteDataService.getNearbyPoints, WazeService.ts lines 284-319; the
\* statement itself may fail (its HAVING and its math functions are not in
\* every SQLite build), and the catch returns []
SqliteGetNearbyPoints(rows, loc, radiusInMeters, ready, statementOk) ==
    IF ~ready THEN {<<>>}
    ELSE IF ~statementOk THEN {<<>>}
    ELSE SqliteSelectNearby(rows, loc, radiusInMeters)

\* initDatabase, WazeService.ts lines 134-156, from one await to the next;
\* a failure at any of the first three is caught at line 153 and leaves
\* isInitialized false for good
SqliteOpened(ok) ==
    /\ sqliteStep = "open"
    /\ sqliteDb' = ok
    /\ sqliteStep' = IF ok THEN "createTables" ELSE "failed"
    /\ UNCHANGED <<isInitialized, sqliteRows, databaseVars, categoryData, cacheVars, audioVars, table, allPoints,
                   query, result, currentLocation, isTracking,
                   onNearbyPointCallback, triggeredPoints, locationSubscription,
                   activeSubscriptions, watchPending, checkPending, historyVars>>

SqliteTablesCreated(ok) ==
    /\ sqliteStep = "createTables"
    /\ sqliteStep' = IF ok THEN "getPointsCount" ELSE "failed"
    /\ UNCHANGED <<sqliteDb, isInitialized, sqliteRows, databaseVars, categoryData, cacheVars, audioVars, table,
                   allPoints, query, result, currentLocation, isTracking,
                   onNearbyPointCallback, triggeredPoints, locationSubscription,
                   activeSubscriptions, watchPending, checkPending, historyVars>>

\* lines 143-151: count === 0 goes on to importData, otherwise initialized
SqliteCounted(ok) ==
    /\ sqliteStep = "getPointsCount"
    /\ IF ~ok THEN sqliteStep' = "failed" /\ UNCHANGED isInitialized
       ELSE IF Len(sqliteRows) = 0
            THEN sqliteStep' = "importData" /\ UNCHANGED isInitialized
            ELSE sqliteStep' = "done" /\ isInitialized' = TRUE
    /\ UNCHANGED <<sqliteDb, sqliteRows, databaseVars, categoryData, cacheVars, audioVars, table, allPoints, query,
                   result, currentLocation, isTracking, onNearbyPointCallback,
                   triggeredPoints, locationSubscription, activeSubscriptions,
                   watchPending, checkPending, historyVars>>

\* importData, lines 192-229: one transaction, rolled back on an error
\* that importData itself catches
SqliteImported(ok) ==
    /\ sqliteStep = "importData"
    /\ sqliteRows' = IF ok THEN allPoints ELSE sqliteRows
    /\ sqliteStep' = "done"
    /\ isInitialized' = TRUE
    /\ UNCHANGED <<sqliteDb, databaseVars, categoryData, cacheVars, audioVars, table, allPoints, query, result,
                   currentLocation, isTracking, onNearbyPointCallback,
                   triggeredPoints, locationSubscription, activeSubscriptions,
                   watchPending, checkPending, historyVars>>

SqliteNearby(loc, radiusInMeters, statementOk) ==
    LET ready == SqliteReady(sqliteDb, isInitialized)
    IN  /\ result' \in SqliteGetNearbyPoints(sqliteRows, loc, radiusInMeters,
                                             ready, statementOk)
        /\ query' = [op |-> "SQLiteDataService.getNearbyPoints",
                     location |-> loc, category |-> "any",
                     radius |-> radiusInMeters,
                     loaded |-> (sqliteDb /\ isInitialized)]
        /\ QueryFrame
        /\ UNCHANGED allPoints

\* DatabaseService.getNearbyPoints, lines 267-287, with a read that may fail
DatabaseNearbyTried(loc, radiusInMeters, readOk) ==
    /\ result' = IF readOk
                 THEN DatabaseGetNearbyPoints(table, loc, radiusInMeters)
                 ELSE DatabaseCatch.returned
    /\ query' = [op |-> "DatabaseService.getNearbyPoints", location |-> loc,
                 category |-> "any", radius |-> radiusInMeters,
                 loaded |-> readOk]
    /\ QueryFrame
    /\ UNCHANGED allPoints

\* PreprocessedDataService.getNearbyPoints, lines 104-114
PreprocessedNearbyAsked(loc, radiusInMeters) ==
    /\ result' = PreprocessedGetNearbyPoints(allPoints, loc, radiusInMeters)
    /\ query' = [op |-> "PreprocessedDataService.getNearbyPoints",
                 location |-> loc, category |-> "any",
                 radius |-> radiusInMeters, loaded |-> (allPoints # <<>>)]
    /\ QueryFrame
    /\ allPoints' = AllPointsAfterNearby(allPoints, loc)

\* the table holds the bundle; SQLiteDataService's database file is new or
\* kept from an earlier run
InitNotLoaded ==
    /\ \E bundle \in Bundles :
          /\ table = bundle
          /\ \E ok \in BOOLEAN :
                /\ allPoints = PreprocessedLoad(ok, bundle)
                /\ categoryData = IF ok THEN CategoryIndex(bundle)
                                  ELSE EmptyIndex
          /\ sqliteRows \in {<<>>, bundle}
    /\ query = NoQuery
    /\ result = <<>>
    /\ dbPromise = "resolved"
    /\ loading = <<>>
    /\ stages = <<"audioguide.db">>
    /\ waiting = <<>>
    /\ initStarts = 1
    /\ earlyReads = 0
    /\ sqliteDb = FALSE
    /\ isInitialized = FALSE
    /\ sqliteStep = "open"
    /\ InitTracker
    /\ InitHistory
    /\ InitMedia

NotLoadedNext ==
    \/ \E ok \in BOOLEAN : SqliteOpened(ok)
    \/ \E ok \in BOOLEAN : SqliteTablesCreated(ok)
    \/ \E ok \in BOOLEAN : SqliteCounted(ok)
    \/ \E ok \in BOOLEAN : SqliteImported(ok)
    \/ \E loc \in QueryLocations, r \in Radii, ok \in BOOLEAN :
           SqliteNearby(loc, r, ok)
    \/ \E loc \in QueryLocations, r \in Radii, ok \in BOOLEAN :
           DatabaseNearbyTried(loc, r, ok)
    \/ \E loc \in QueryLocations, r \in Radii : PreprocessedNearbyAsked(loc, r)

SpecNotLoaded == InitNotLoaded /\ [][NotLoadedNext]_vars

----------------------------------------------------------------------------
(* DatabaseService from the first call of a public operation: the lazy     *)
(* initialization behind getDbPromise, and the operations that await it    *)

\* data/points.ts, the points inserted when the bundle cannot be loaded
temporaryPoints ==
    <<[id |-> 1, category |-> "historical", latitude |-> 0, longitude |-> Lon0]>>

\* id INTEGER PRIMARY KEY AUTOINCREMENT: rows are numbered as inserted
Renumbered(rows) == [i \in DOMAIN rows |-> [rows[i] EXCEPT !.id = i]]

\* initDatabase's three databases: lines 54, 77 and 91
PrimaryDatabase == "audioguide.db"
FallbackDatabase == "audioguide_fallback.db"
MemoryDatabase == ":memory:"
NoDatabase == "none"

\* a faulty variant: no in-memory database after the fallback file
NextDatabase_NoMemory(database) ==
    IF database = PrimaryDatabase THEN FallbackDatabase ELSE NoDatabase

\* the catch blocks of lines 63, 85 and 96: the database tried after this
\* one has failed
NextDatabase(database) ==
    CASE database = PrimaryDatabase -> FallbackDatabase
      [] database = FallbackDatabase -> MemoryDatabase
      [] database = MemoryDatabase -> NoDatabase

\* the database initDatabase works on
CurrentDatabase == IF stages = <<>> THEN NoDatabase ELSE stages[Len(stages)]

\* the calls of the public operations
DatabaseCalls ==
    {[op |-> "DatabaseService.getAllPoints"],
     [op |-> "DatabaseService.getCategories"],
     AskedListing("DatabaseService.getPointsByCategory", "historical"),
     Asked("DatabaseService.getNearbyPoints", [latitude |-> 0, longitude |-> Lon0],
           "any", ArrivalRadius),
     Asked("DatabaseService.getNearbyPointsByCategory",
           [latitude |-> 0, longitude |-> Lon0], "historical", ArrivalRadius)}

\* a faulty variant: every call initializes
NeedsInit_Always(promise) == TRUE

\* getDbPromise, line 25: if (!dbPromise)
NeedsInit(promise) == promise = NULL

\* a faulty variant: the operation goes on without the await
MayResume_Unawaited(promise) == promise # NULL

\* const db = await getDbPromise(): the call goes on when the promise is
\* settled, into the try when resolved and into the catch when rejected
MayResume(promise) == promise \in {"resolved", "rejected"}

\* what the operation's read of the table returns; SELECT DISTINCT category
\* may return the categories in any order
DatabaseReads(call, rows) ==
    CASE call.op = "DatabaseService.getAllPoints" -> {rows}
      [] call.op = "DatabaseService.getCategories" ->
            LET cats == {rows[i].category : i \in DOMAIN rows}
            IN  {s \in [1 .. Cardinality(cats) -> cats] :
                    \A i, j \in DOMAIN s : i # j => s[i] # s[j]}
      [] call.op = "DatabaseService.getPointsByCategory" ->
            {WithCategory(rows, call.category)}
      [] call.op = "DatabaseService.getNearbyPoints" ->
            {DatabaseGetNearbyPoints(rows, call.location, call.radius)}
      [] call.op = "DatabaseService.getNearbyPointsByCategory" ->
            {DatabaseGetNearbyPointsByCategory(rows, call.location,
                                               call.category, call.radius)}

DatabaseFrame ==
    UNCHANGED <<sqliteVars, categoryData, cacheVars, audioVars, allPoints,
                currentLocation, isTracking,
                onNearbyPointCallback, triggeredPoints, locationSubscription,
                activeSubscriptions, watchPending, checkPending, historyVars>>

\* a public operation up to its await getDbPromise(), e.g. lines 250-252;
\* getDbPromise, lines 24-29, calls initDatabase when dbPromise is null
DatabaseCalled(call) ==
    /\ Len(waiting) < MaxPending
    /\ IF NeedsInit(dbPromise)
       THEN /\ dbPromise' = "pending"
            /\ initStarts' = initStarts + 1
            /\ stages' = <<PrimaryDatabase>>
       ELSE UNCHANGED <<dbPromise, initStarts, stages>>
    /\ waiting' = Append(waiting, call)
    /\ UNCHANGED <<loading, earlyReads, table, query, result>>
    /\ DatabaseFrame

\* loadAllDataWithBatches, lines 162-189: the next batch is inserted
BatchLoaded ==
    /\ dbPromise = "pending"
    /\ CurrentDatabase = PrimaryDatabase
    /\ loading # <<>>
    /\ table' = Renumbered(Append(table, Head(loading)))
    /\ loading' = Tail(loading)
    /\ UNCHANGED <<dbPromise, stages, waiting, initStarts, earlyReads, query,
                   result>>
    /\ DatabaseFrame

\* loadAllDataWithBatches, lines 195-199: an error in the load (in the
\* import, the parse, the DELETE or the transaction of a batch, which is
\* rolled back) is caught and the temporary points are inserted after the
\* batches already in; with no points parsed, lines 145-149 insert them as
\* well
LoadFellBack ==
    /\ dbPromise = "pending"
    /\ CurrentDatabase = PrimaryDatabase
    /\ loading # <<>> \/ table = <<>>
    /\ table' = Renumbered(table \o temporaryPoints)
    /\ loading' = <<>>
    /\ dbPromise' = "resolved"
    /\ UNCHANGED <<stages, waiting, initStarts, earlyReads, query, result>>
    /\ DatabaseFrame

\* initDatabase, lines 60-62: every batch is in, db is returned
InitCompleted ==
    /\ dbPromise = "pending"
    /\ CurrentDatabase = PrimaryDatabase
    /\ loading = <<>>
    /\ dbPromise' = "resolved"
    /\ UNCHANGED <<loading, stages, waiting, initStarts, earlyReads, table,
                   query, result>>
    /\ DatabaseFrame

\* initDatabase, lines 63-66 and 85-88: opening the database, creating its
\* tables or filling it has thrown, and the catch turns to the next
\* database, whose points_of_interest is a table of its own
DatabaseFailed ==
    /\ dbPromise = "pending"
    /\ NextDatabase(CurrentDatabase) # NoDatabase
    /\ stages' = Append(stages, NextDatabase(CurrentDatabase))
    /\ table' = <<>>
    /\ loading' = <<>>
    /\ UNCHANGED <<dbPromise, waiting, initStarts, earlyReads, query, result>>
    /\ DatabaseFrame

\* initDatabase, lines 77-84 and 91-95: the fallback database, on disk or
\* in memory, is created with the temporary points alone and returned
InitFellBack ==
    /\ dbPromise = "pending"
    /\ CurrentDatabase \in {FallbackDatabase, MemoryDatabase}
    /\ table' = Renumbered(temporaryPoints)
    /\ loading' = <<>>
    /\ dbPromise' = "resolved"
    /\ UNCHANGED <<stages, waiting, initStarts, earlyReads, query, result>>
    /\ DatabaseFrame

\* initDatabase, lines 96-98: the last database has failed as well, throw
InitFailed ==
    /\ dbPromise = "pending"
    /\ NextDatabase(CurrentDatabase) = NoDatabase
    /\ table' = <<>>
    /\ loading' = <<>>
    /\ dbPromise' = "rejected"
    /\ UNCHANGED <<stages, waiting, initStarts, earlyReads, query, result>>
    /\ DatabaseFrame

\* the oldest suspended operation goes on: it reads the table and returns
\* what it read, or returns [] from its catch when the promise was
\* rejected or the read fails; the query kept beside the result records
\* whether the database was there and the read went through
DatabaseResumed(readOk) ==
    /\ waiting # <<>>
    /\ MayResume(dbPromise)
    /\ LET call == Head(waiting)
           failed == dbPromise = "rejected" \/ ~readOk
       IN  /\ query' = call @@ [loaded |-> ~failed,
                                threw |-> failed /\ DatabaseCatch.threw]
           /\ result' \in IF failed
                           THEN {DatabaseCatch.returned}
                           ELSE DatabaseReads(call, table)
    /\ earlyReads' = IF dbPromise = "pending" THEN earlyReads + 1
                     ELSE earlyReads
    /\ waiting' = Tail(waiting)
    /\ UNCHANGED <<dbPromise, loading, stages, initStarts, table>>
    /\ DatabaseFrame

\* no operation has been called yet
InitDatabase ==
    /\ table = <<>>
    /\ allPoints = <<>>
    /\ categoryData = CategoryIndex(allPoints)
    /\ query = NoQuery
    /\ result = <<>>
    /\ dbPromise = NULL
    /\ loading \in Bundles
    /\ stages = <<>>
    /\ waiting = <<>>
    /\ initStarts = 0
    /\ earlyReads = 0
    /\ sqliteDb = FALSE
    /\ isInitialized = FALSE
    /\ sqliteStep = "open"
    /\ sqliteRows = <<>>
    /\ InitTracker
    /\ InitHistory
    /\ InitMedia

DatabaseNext ==
    \/ \E call \in DatabaseCalls : DatabaseCalled(call)
    \/ BatchLoaded
    \/ LoadFellBack
    \/ InitCompleted
    \/ DatabaseFailed
    \/ InitFellBack
    \/ InitFailed
    \/ \E readOk \in BOOLEAN : DatabaseResumed(readOk)

SpecDatabase == InitDatabase /\ [][DatabaseNext]_vars

----------------------------------------------------------------------------
(* One tracking session with nearby queries asked during it: the bundled   *)
(* catalog and the table hold the same points                              *)

InitBoundary ==
    /\ table \in TrackerTables
    /\ allPoints = table
    /\ query = NoQuery
    /\ result = <<>>
    /\ InitTracker
    /\ InitHistory
    /\ InitMedia
    /\ InitLoaded

BoundaryNext ==
    \/ \E cb \in Callbacks : StartLocationTracking(cb)
    \/ WatchResolved
    \/ \E loc \in UpdateLocations : PositionCallback(loc)
    \/ CheckResumed
    \/ \E loc \in GridLocations, r \in Radii : PreprocessedNearby(loc, r)
    \/ \E loc \in GridLocations, r \in Radii : DatabaseNearby(loc, r)

SpecBoundary == InitBoundary /\ [][BoundaryNext]_vars

----------------------------------------------------------------------------
(* The nearby queries' claims *)

\* the points the asked query draws from, and each one's distance from the
\* asked location
Source ==
    IF query.op \in {"PreprocessedDataService.getNearbyPoints",
                     "PreprocessedDataService.getNearbyPointsByCategory",
                     "PreprocessedDataService.getPointsByCategory"}
    THEN allPoints ELSE table
Answered == query # NoQuery
DistanceOf(point) == DistanceTo(query.location, point)

\* C9: every point a nearby query returns, of PreprocessedDataService or of
\* DatabaseService, with or without a category, lies within the requested
\* radius of the requested location
C9_RadiusContainment ==
    Answered => \A i \in DOMAIN result :
                    /\ DistanceOf(result[i]) # NaN
                    /\ DistanceOf(result[i]) <= query.radius

\* a query has returned some points and left out a point of its source that
\* lies beyond the radius
C9_Witness ==
    /\ Answered
    /\ result # <<>>
    /\ \E i \in DOMAIN Source :
          /\ DistanceOf(Source[i]) > query.radius
          /\ \A j \in DOMAIN result : result[j] # Source[i]

\* C10 as claimed: the points a nearby query returns are in non-decreasing
\* order of their distance from the requested location
C10_Claim ==
    Answered => \A i, j \in DOMAIN result :
                    i < j => DistanceOf(result[i]) <= DistanceOf(result[j])

\* the asked query is one of PreprocessedDataService, which sorts
AskedOfPreprocessed ==
    /\ Answered
    /\ query.op \in {"PreprocessedDataService.getNearbyPoints",
                     "PreprocessedDataService.getNearbyPointsByCategory"}

\* C11 as claimed: of two points that PreprocessedDataService returns at the
\* same distance from the query location, the one with the smaller
\* identifier comes first
C11_Claim ==
    AskedOfPreprocessed =>
        \A i, j \in DOMAIN result :
            (i < j /\ DistanceOf(result[i]) = DistanceOf(result[j]))
                => result[i].id < result[j].id

\* the cap of the asked query
CapOf(op) ==
    IF op \in {"PreprocessedDataService.getNearbyPoints",
               "DatabaseService.getNearbyPoints"}
    THEN NearbyCap ELSE CategoryCap

\* C12 as claimed: a nearby query of either service returns at most its cap
\* of points, 50 without a category and 30 with one
C12_Claim == Answered => Len(result) <= CapOf(query.op)

\* C13: every point returned by a query that was given a category, a
\* listing or a nearby query of either service, has exactly that category
C13_CategoryPurity ==
    Answered => \A i \in DOMAIN result : result[i].category = query.category

\* such a query has returned some points and left out a point of its source
\* that has another category
C13_Witness ==
    /\ Answered
    /\ result # <<>>
    /\ \E i \in DOMAIN Source : Source[i].category # query.category

\* the candidates of the asked nearby query: the points of its source, of
\* its category when it was given one, within its radius
Candidates ==
    {Source[i] : i \in {k \in DOMAIN Source :
        /\ query.category \in {"any", Source[k].category}
        /\ DistanceOf(Source[k]) # NaN
        /\ DistanceOf(Source[k]) <= query.radius}}

Returned == {result[i] : i \in DOMAIN result}

\* C14: a nearby query of PreprocessedDataService returns min(N, k) of its k
\* candidates, none twice, and every candidate it leaves out is at least as
\* far as each of the N it returns
C14_NearestN ==
    AskedOfPreprocessed =>
        /\ Returned \subseteq Candidates
        /\ Len(result) = Min(CapOf(query.op), Cardinality(Candidates))
        /\ Cardinality(Returned) = Len(result)
        /\ \A c \in Candidates \ Returned :
              /\ Len(result) = CapOf(query.op)
              /\ \A r \in Returned : DistanceOf(r) <= DistanceOf(c)

\* the cap was reached: a candidate was left out, and a returned point is
\* nearer than it
C14_Witness ==
    /\ AskedOfPreprocessed
    /\ Len(result) = CapOf(query.op)
    /\ \E c \in Candidates \ Returned :
          \E r \in Returned : DistanceOf(r) < DistanceOf(c)

\* the ids of the points at exactly the arrival radius from loc
OnArrivalBoundary(loc) ==
    {id \in Ids : \E i \in DOMAIN table :
        /\ table[i].id = id
        /\ DistanceTo(loc, table[i]) = ArrivalRadius}

C16_UnknownCategoryEmpty ==
    (Answered /\ \A i \in DOMAIN Source : Source[i].category # query.category)
        => result = <<>>

\* a category that is not a category at all was asked of a source that has
\* points, and the empty sequence came back
C16_Witness ==
    /\ Answered
    /\ query.category \notin Categories
    /\ Source # <<>>
    /\ result = <<>>

\* C17: a nearby query asked of a catalog that is not there returns the
\* empty sequence and nothing else: of PreprocessedDataService when its load
\* failed, of SQLiteDataService before its initDatabase has finished, of
\* DatabaseService when the read fails
C17_NotLoadedEmpty == (Answered /\ ~query.loaded) => result = <<>>

\* SQLiteDataService was asked with its database open and holding points,
\* before isInitialized was set, and returned the empty sequence
C17_Witness ==
    /\ Answered
    /\ query.op = "SQLiteDataService.getNearbyPoints"
    /\ ~query.loaded
    /\ sqliteDb
    /\ sqliteRows # <<>>
    /\ result = <<>>

\* a step in which a query returned
QueryStep == query' # query \/ result' # result

BucketsOf(point) ==
    {category \in DOMAIN categoryData :
        \E j \in DOMAIN categoryData[category] :
            categoryData[category][j] = point}

\* C19: once PreprocessedDataService has loaded its catalog, every point of
\* allPoints is in exactly one bucket of categoryData, once, and the buckets
\* hold nothing but points of allPoints
C19_IndexPartition ==
    allPoints # <<>> =>
        /\ \A i \in DOMAIN allPoints :
              /\ Cardinality(BucketsOf(allPoints[i])) = 1
              /\ \A category \in BucketsOf(allPoints[i]) :
                    Cardinality({j \in DOMAIN categoryData[category] :
                        categoryData[category][j] = allPoints[i]}) = 1
        /\ \A category \in DOMAIN categoryData :
              \A j \in DOMAIN categoryData[category] :
                  \E i \in DOMAIN allPoints :
                      allPoints[i] = categoryData[category][j]

\* the loaded catalog has points of two categories, and each has its bucket
C19_Witness ==
    /\ Len(allPoints) >= 2
    /\ categoryData["historical"] # <<>>
    /\ categoryData["nature"] # <<>>

\* C20: however the public operations of DatabaseService are called and
\* interleaved, initDatabase is started once, by the first call, and no
\* operation reads the table before the initialization has completed
C20_InitOnce ==
    /\ initStarts <= 1
    /\ (dbPromise # NULL \/ waiting # <<>> \/ query # NoQuery) => initStarts = 1
    /\ earlyReads = 0
    /\ query # NoQuery => dbPromise \in {"resolved", "rejected"}

\* two operations were called while the load was under way and wait for it
C20_Witness ==
    /\ dbPromise = "pending"
    /\ initStarts = 1
    /\ Len(waiting) = 2
    /\ table # <<>>
    /\ loading # <<>>

----------------------------------------------------------------------------
(* DatabaseService's failures *)

\* the operations of DatabaseService
DatabaseOps == {call.op : call \in DatabaseCalls}

\* C21: a public operation of DatabaseService never throws; it returns the
\* empty sequence when the initialization was rejected or its read failed;
\* and a rejected initialization stays rejected and is not started again,
\* so every later call returns the empty sequence as well
C21_NeverThrows ==
    /\ [](Answered => ~query.threw)
    /\ []((Answered /\ ~query.loaded) => result = <<>>)
    /\ [][dbPromise = "rejected" =>
            /\ dbPromise' = "rejected"
            /\ initStarts' = initStarts
            /\ Len(waiting') < Len(waiting) => result' = <<>>]_vars

\* the initialization was rejected, an operation has returned the empty
\* sequence, and another call made since waits on the same promise
C21_Witness ==
    /\ dbPromise = "rejected"
    /\ initStarts = 1
    /\ Answered /\ ~query.loaded /\ result = <<>>
    /\ waiting # <<>>

----------------------------------------------------------------------------
(* calculateDistance on the sphere.  Coordinates are degrees on a grid of  *)
(* 60 degrees, where the haversine terms are rational:                     *)
(*   sin^2 of 0, 30, 60, 90 degrees = 0, 1/4, 3/4, 1                       *)
(*   cos of 0, 60 degrees           = 1, 1/2                               *)
(* so a is a number of sixteenths, and c = 2 atan2(sqrt a, sqrt(1 - a)) is *)
(* looked up for each of them.  (calculateDistance above is this formula   *)
(* for two positions on one meridian, in metres of arc.)                   *)

GridLatitudes == {0 - 60, 0, 60}
GridLongitudes == {0 - 180, 0 - 120, 0 - 60, 0, 60, 120, 180}
Coordinates == [latitude : GridLatitudes, longitude : GridLongitudes]

\* Math.sin of a multiple of 30 degrees in -180 .. 180: its sign, and four
\* times its square
Sin(halfAngle) ==
    LET x == Abs(halfAngle)
    IN  [sign |-> IF halfAngle = 0 \/ x = 180 THEN 0
                  ELSE IF halfAngle < 0 THEN 0 - 1 ELSE 1,
         square4 |-> CASE x \in {0, 180} -> 0
                       [] x \in {30, 150} -> 1
                       [] x \in {60, 120} -> 3
                       [] x = 90 -> 4]

\* Math.sin(x) * Math.sin(x), in quarters: the sign goes with the square
SinTimesSin(s) == s.sign * s.sign * s.square4

\* twice Math.cos of a latitude of the grid
Cos2(latitude) == IF latitude = 0 THEN 2 ELSE 1

\* a faulty variant: the first latitude's cosine taken twice
CosTimesCos_FirstTwice(lat1, lat2) == Cos2(lat1) * Cos2(lat1)

\* Math.cos(phi1) * Math.cos(phi2), in quarters
CosTimesCos(lat1, lat2) == Cos2(lat1) * Cos2(lat2)

\* R * 2 * atan2(sqrt(a), sqrt(1 - a)) in metres, for a = k / 16, k = 0 .. 16
ArcMetres ==
    <<0, 3219652, 4604540, 5706280, 6671696, 7558552, 8397717, 9209080,
      10007543, 10806007, 11617369, 12456535, 13343391, 14308806, 15410547,
      16795435, 20015087>>

\* LocationService.calculateDistance, lines 121-139; the same formula is
\* PreprocessedDataService.calculateDistance, lines 171-180, and
\* DatabaseService's calculateDistance, lines 327-341
Haversine(lat1, lon1, lat2, lon2) ==
    LET dLat == lat2 - lat1
        dLon == lon2 - lon1
        \* a difference of longitudes beyond 360 degrees does not occur on
        \* the grid; half of it is a multiple of 30 degrees in -180 .. 180
        a16 == 4 * SinTimesSin(Sin(dLat \div 2))
                 + CosTimesCos(lat1, lat2) * SinTimesSin(Sin(dLon \div 2))
    IN  ArcMetres[a16 + 1]

DistanceServices == {"LocationService.calculateDistance",
                     "PreprocessedDataService.calculateDistance",
                     "DatabaseService.calculateDistance"}

\* one of the three functions is applied to two positions
DistanceCalculated(service, from, to) ==
    /\ query' = [op |-> service, from |-> from, to |-> to]
    /\ result' = <<Haversine(from.latitude, from.longitude,
                             to.latitude, to.longitude)>>
    /\ QueryFrame
    /\ UNCHANGED allPoints

InitDistance ==
    /\ table = <<>>
    /\ allPoints = <<>>
    /\ query = NoQuery
    /\ result = <<>>
    /\ InitTracker
    /\ InitHistory
    /\ InitMedia
    /\ InitLoaded

DistanceNext ==
    \E service \in DistanceServices, from \in Coordinates, to \in Coordinates :
        DistanceCalculated(service, from, to)

SpecDistance == InitDistance /\ [][DistanceNext]_vars

\* C22: the distance calculated from A to B is the distance calculated from
\* B to A, for all valid positions A and B
C22_DistanceSymmetry ==
    Answered =>
        result = <<Haversine(query.to.latitude, query.to.longitude,
                             query.from.latitude, query.from.longitude)>>

\* a distance was calculated between two positions of different latitudes,
\* one on the equator, and different longitudes, and it is not zero
C22_Witness ==
    /\ Answered
    /\ query.from.latitude = 0
    /\ query.to.latitude # 0
    /\ query.from.longitude # query.to.longitude
    /\ result[1] > 0

----------------------------------------------------------------------------
(* Starting and stopping the tracker *)

\* C23 as claimed: at most one subscription delivers positions at any time,
\* none does while isTracking is false, and the service holds every
\* subscription that still delivers, so that a stop removes it
C23_Claim ==
    /\ Cardinality(activeSubscriptions) <= 1
    /\ ~isTracking => activeSubscriptions = {}
    /\ activeSubscriptions \subseteq {locationSubscription}

\* C24 as claimed: HomeScreen's effect stops and starts the tracker when its
\* currentLocation changes; a point that was triggered when the tracker was
\* stopped, and that every update since the restart still sees inside, is
\* not announced by the first update processed after the restart
C24_Claim ==
    [][(CheckStep /\ isTracking /\ lastSeen = NoLocation) =>
          \A id \in heldAtStop :
              (/\ id \in InsideIds(currentLocation)
               /\ \A i \in DOMAIN checkPending : id \in InsideIds(checkPending[i]))
                  => CountIn(fired', id) = 0]_vars

\* C25 as claimed: between a stop and the next start no step invokes the
\* arrival callback or changes the triggered set, a checkNearbyPoints that
\* was suspended when tracking stopped included
C25_Claim ==
    [][(~isTracking /\ ~isTracking') =>
          /\ triggeredPoints' = triggeredPoints
          /\ CheckStep => fired' = <<>>]_vars

----------------------------------------------------------------------------
(* Calls of startLocationTracking, counted, in one tracking session: each  *)
(* run of HomeScreen's effect passes a new closure                         *)

StartCallbacks == Callbacks \cup {"handleNearbyPoint, a later closure"}

\* startLocationTracking, lines 42-49, up to its return at line 43 or to
\* await watchPositionAsync
StartCalled(cb) ==
    /\ startCalls < MaxCalls
    /\ startCalls' = startCalls + 1
    /\ IF ReturnsAtOnce(isTracking)
       THEN UNCHANGED <<loadVars, table, allPoints, query, result,
                        currentLocation, isTracking, onNearbyPointCallback,
                        triggeredPoints, locationSubscription,
                        activeSubscriptions, watchPending, checkPending, fired,
                        lastSeen, events, entries, heldAtStop, repeated,
                        nUpdates, nStarts>>
       ELSE nStarts < MaxStarts /\ StartEffects(cb)

StartNext ==
    \/ \E cb \in StartCallbacks : StartCalled(cb)
    \/ WatchResolved
    \/ \E loc \in UpdateLocations : PositionCallback(loc)
    \/ CheckResumed

SpecStart == Init /\ [][StartNext]_vars

\* C26: a call of startLocationTracking made while tracking is active
\* leaves the registered callback, the triggered set, isTracking and the
\* subscriptions, created and pending, as they are
C26_StartWhileTrackingNoOp ==
    [][(isTracking /\ startCalls' = startCalls + 1) =>
          UNCHANGED <<onNearbyPointCallback, triggeredPoints, isTracking,
                      locationSubscription, activeSubscriptions, watchPending,
                      nStarts>>]_vars

\* startLocationTracking has been called more than once, with one
\* subscription created, one callback registered and a point triggered
C26_Witness ==
    /\ startCalls > 1
    /\ nStarts = 1
    /\ isTracking
    /\ onNearbyPointCallback # NULL
    /\ triggeredPoints # {}
    /\ activeSubscriptions = {locationSubscription}

----------------------------------------------------------------------------
(* initDatabase's fallbacks *)

\* the databases in the order initDatabase turns to them
DatabaseOrder == <<PrimaryDatabase, FallbackDatabase, MemoryDatabase>>

\* C27: initDatabase turns to its databases in one order, the primary file,
\* the fallback file, the database in memory, each after the one before it
\* has failed; it resolves with the database it is working on, the fallback
\* ones holding the temporary points alone, and turns to no other one
\* afterwards; and it rejects only after all three have failed
C27_FallbackOrder ==
    /\ [](stages = SubSeq(DatabaseOrder, 1, Len(stages)))
    /\ [](dbPromise = "pending" => stages # <<>>)
    /\ []((dbPromise = "resolved" /\ CurrentDatabase # PrimaryDatabase)
             => table = Renumbered(temporaryPoints))
    /\ [](dbPromise = "rejected" => stages = DatabaseOrder)
    /\ [][(dbPromise = "resolved" \/ dbPromise = "rejected") =>
            UNCHANGED <<stages, dbPromise>>]_vars
    /\ [][(dbPromise = "pending" /\ dbPromise' = "resolved") =>
            stages' = stages /\ CurrentDatabase # NoDatabase]_vars

\* the two files have failed, the database in memory was returned, and an
\* operation has read the temporary points from it
C27_Witness ==
    /\ dbPromise = "resolved"
    /\ stages = DatabaseOrder
    /\ Answered /\ query.loaded
    /\ query.op = "DatabaseService.getAllPoints"
    /\ result = Renumbered(temporaryPoints)

\* C28 as claimed: when loadAllDataWithBatches completes, the table holds
\* exactly the parsed points (those already inserted and those still to
\* insert when the step began), or exactly the temporary points
C28_Claim ==
    [][(/\ dbPromise = "pending"
        /\ dbPromise' = "resolved"
        /\ CurrentDatabase = PrimaryDatabase) =>
          \/ table' = Renumbered(table \o loading)
          \/ table' = Renumbered(temporaryPoints)]_vars

----------------------------------------------------------------------------
(* The audio cache.  CloudAudioService and HybridAudioService keep their   *)
(* downloads in the same directory, cacheDirectory/audio-cache/, and each  *)
(* runs its cleanupCache after a download, one run at a time.  The size    *)
(* expo-file-system reports for the directory is taken to be the sum of    *)
(* the sizes of its files.                                                 *)

Megabyte == 1024 * 1024

CacheServices == {"CloudAudioService", "HybridAudioService"}

\* CloudAudioService line 17, HybridAudioService line 19
MAX_CACHE_SIZE(service) ==
    IF service = "CloudAudioService" THEN 100 * Megabyte ELSE 50 * Megabyte

FileSizes == {20 * Megabyte, 30 * Megabyte}

RECURSIVE DirectorySize(_)
DirectorySize(files) ==
    IF files = {} THEN 0
    ELSE LET f == CHOOSE x \in files : TRUE
         IN  f.size + DirectorySize(files \ {f})

\* readDirectoryAsync: the files in an order the platform chooses
Listings(files) ==
    {s \in [1 .. Cardinality(files) -> files] :
        \A i, j \in DOMAIN s : i # j => s[i] # s[j]}

RECURSIVE InsertByModified(_, _)
InsertByModified(s, e) ==
    IF s = <<>> THEN <<e>>
    ELSE LET last == s[Len(s)]
         IN  IF last.modified - e.modified > 0
             THEN Append(InsertByModified(SubSeq(s, 1, Len(s) - 1), e), last)
             ELSE Append(s, e)

\* a faulty variant: the sort left out
SortByModified_Unsorted(fileInfos) == fileInfos

RECURSIVE SortByModified(_)
\* fileInfos.sort((a, b) => a.modified - b.modified)
SortByModified(fileInfos) ==
    IF fileInfos = <<>> THEN <<>>
    ELSE InsertByModified(SortByModified(SubSeq(fileInfos, 1, Len(fileInfos) - 1)),
                          fileInfos[Len(fileInfos)])

\* a faulty variant: the loop stops at the limit itself
EnoughRoom_AtLimit(currentSize, limit) == currentSize <= limit

\* CloudAudioService line 119, HybridAudioService line 183:
\* currentSize <= this.MAX_CACHE_SIZE * 0.8 (the product is a whole number
\* for both limits)
EnoughRoom(currentSize, limit) == currentSize <= (limit * 8) \div 10

RECURSIVE DeleteLoop(_, _, _, _, _, _)
\* CloudAudioService lines 117-124: the files deleted, in order; the
\* failAt-th deleteAsync throws, which ends the run in its catch
DeleteLoop(fileInfos, i, currentSize, limit, failAt, deleted) ==
    IF i > Len(fileInfos) \/ EnoughRoom(currentSize, limit)
    THEN [deleted |-> deleted, failed |-> FALSE]
    ELSE IF failAt = Len(deleted) + 1
    THEN [deleted |-> deleted, failed |-> TRUE]
    ELSE DeleteLoop(fileInfos, i + 1, currentSize - fileInfos[i].size, limit,
                    failAt, Append(deleted, fileInfos[i]))

\* cleanupCache, CloudAudioService lines 98-129 and HybridAudioService
\* lines 164-192
CleanupCache(files, listing, limit, failAt) ==
    LET size == DirectorySize(files)
    IN  IF files # {} /\ size # 0 /\ size > limit
        THEN DeleteLoop(SortByModified(listing), 1, size, limit, failAt, <<>>)
        ELSE [deleted |-> <<>>, failed |-> FALSE]

FilesOf(fileInfos) == {fileInfos[i] : i \in DOMAIN fileInfos}

\* a file has been downloaded (CloudAudioService.downloadFromCloud, lines
\* 69-93, HybridAudioService.loadCloudAudio, lines 100-109) and cleanupCache
\* has run
Downloaded(service, fileSize, failAt) ==
    /\ downloads < MaxDownloads
    /\ downloads' = downloads + 1
    /\ LET file == [file |-> downloads + 1, size |-> fileSize,
                    modified |-> downloads + 1]
           files == cacheFiles \cup {file}
       IN  \E listing \in Listings(files) :
               LET run == CleanupCache(files, listing, MAX_CACHE_SIZE(service),
                                       failAt)
               IN  /\ cacheFiles' = files \ FilesOf(run.deleted)
                   /\ cleanup' = [ran |-> TRUE, limit |-> MAX_CACHE_SIZE(service),
                                  sizeBefore |-> DirectorySize(files),
                                  deleted |-> run.deleted, failed |-> run.failed]
    /\ UNCHANGED <<databaseVars, sqliteVars, categoryData, audioVars, table,
                   allPoints, query, result, currentLocation, isTracking,
                   onNearbyPointCallback, triggeredPoints, locationSubscription,
                   activeSubscriptions, watchPending, checkPending, historyVars>>

\* the operating system empties the cache directory
CachePurged ==
    /\ cacheFiles # {}
    /\ cacheFiles' = {}
    /\ UNCHANGED <<cleanup, downloads>>
    /\ UNCHANGED <<databaseVars, sqliteVars, categoryData, audioVars, table,
                   allPoints, query, result, currentLocation, isTracking,
                   onNearbyPointCallback, triggeredPoints, locationSubscription,
                   activeSubscriptions, watchPending, checkPending, historyVars>>

CacheNext ==
    \/ \E service \in CacheServices, fileSize \in FileSizes, failAt \in 0 .. 2 :
           Downloaded(service, fileSize, failAt)
    \/ CachePurged

SpecCache == InitDistance /\ [][CacheNext]_vars

RECURSIVE SizeOf(_)
SizeOf(fileInfos) ==
    IF fileInfos = <<>> THEN 0
    ELSE fileInfos[1].size + SizeOf(Tail(fileInfos))

----------------------------------------------------------------------------
(* AudioService: loadAudio, playPointAudio and stopAudio, each from one    *)
(* await to the next.  HomeScreen.handlePlayAudio calls them from a tap    *)
(* handler and nothing keeps two taps from overlapping.                    *)

AudioOps == {"loadAudio", "playPointAudio", "stopAudio"}
LoadOps == {"loadAudio", "playPointAudio"}

\* a call under way: the operation, the await it stands at, and the sound
\* the awaited method was called on
AudioCall(op, pc, target) == [op |-> op, pc |-> pc, target |-> target]

\* the calls under way that have still to create their sound
LoadsUnderWay ==
    Cardinality({i \in DOMAIN audioCalls :
        /\ audioCalls[i].op \in LoadOps
        /\ audioCalls[i].pc # "playAsync"})

Without(calls, i) == SubSeq(calls, 1, i - 1) \o SubSeq(calls, i + 1, Len(calls))

\* stopAudio has returned, lines 96-108: a stopAudio call is over, and
\* loadAudio goes on to await asset.downloadAsync(), lines 36-43 (the file
\* is in the audioFiles mapping)
AfterStop(calls, i) ==
    IF calls[i].op = "stopAudio" THEN Without(calls, i)
    ELSE [calls EXCEPT ![i] = AudioCall(calls[i].op, "downloadAsync", NoSound)]

AudioFrame ==
    UNCHANGED <<databaseVars, sqliteVars, categoryData, cacheVars, table,
                allPoints, query, result, currentLocation, isTracking,
                onNearbyPointCallback, triggeredPoints, locationSubscription,
                activeSubscriptions, watchPending, checkPending, historyVars>>

\* a call of one of the three operations, up to its first await: each
\* begins with stopAudio's test of this.sound, line 98
AudioCalled(op) ==
    /\ Len(audioCalls) < MaxPending
    /\ op \in LoadOps => nSounds + LoadsUnderWay < MaxSounds
    /\ audioCalls' =
          IF sound # NoSound
          THEN Append(audioCalls, AudioCall(op, "stopAsync", sound))
          ELSE IF op = "stopAudio" THEN audioCalls
          ELSE Append(audioCalls, AudioCall(op, "downloadAsync", NoSound))
    /\ UNCHANGED <<sound, isPlaying, loadedSounds, nSounds>>
    /\ AudioFrame

\* await this.sound.stopAsync() settles, line 99: it throws when the sound
\* is not loaded any more, and stopAudio's catch ends stopAudio; otherwise
\* line 100 reads this.sound again, which throws when it has become null
StopAsyncSettled(i, ok) ==
    /\ i \in DOMAIN audioCalls
    /\ audioCalls[i].pc = "stopAsync"
    /\ ok => audioCalls[i].target \in loadedSounds
    /\ audioCalls' =
          IF ok /\ sound # NoSound
          THEN [audioCalls EXCEPT ![i] = AudioCall(audioCalls[i].op,
                                                   "unloadAsync", sound)]
          ELSE AfterStop(audioCalls, i)
    /\ isPlaying' = isPlaying
    /\ UNCHANGED <<sound, loadedSounds, nSounds>>
    /\ AudioFrame

\* await this.sound.unloadAsync() settles, lines 100-103
UnloadAsyncSettled(i, ok) ==
    /\ i \in DOMAIN audioCalls
    /\ audioCalls[i].pc = "unloadAsync"
    /\ IF ok
       THEN /\ loadedSounds' = loadedSounds \ {audioCalls[i].target}
            /\ sound' = NoSound
            /\ isPlaying' = FALSE
       ELSE UNCHANGED <<loadedSounds, sound, isPlaying>>
    /\ audioCalls' = AfterStop(audioCalls, i)
    /\ UNCHANGED nSounds
    /\ AudioFrame

\* await asset.downloadAsync() settles, line 43; the catch of line 63
\* returns false
DownloadAsyncSettled(i, ok) ==
    /\ i \in DOMAIN audioCalls
    /\ audioCalls[i].pc = "downloadAsync"
    /\ audioCalls' =
          IF ok
          THEN [audioCalls EXCEPT ![i] = AudioCall(audioCalls[i].op,
                                                   "createAsync", NoSound)]
          ELSE Without(audioCalls, i)
    /\ UNCHANGED <<sound, isPlaying, loadedSounds, nSounds>>
    /\ AudioFrame

\* await Audio.Sound.createAsync(asset) settles, lines 46-62: the new sound
\* is assigned to this.sound; playPointAudio goes on to playAudio, lines
\* 69-76, and awaits this.sound.playAsync()
CreateAsyncSettled(i, ok) ==
    /\ i \in DOMAIN audioCalls
    /\ audioCalls[i].pc = "createAsync"
    /\ IF ok
       THEN LET created == [sound |-> nSounds + 1]
            IN  /\ loadedSounds' = loadedSounds \cup {created}
                /\ sound' = created
                /\ nSounds' = nSounds + 1
                /\ audioCalls' =
                      IF audioCalls[i].op = "playPointAudio"
                      THEN [audioCalls EXCEPT ![i] =
                               AudioCall("playPointAudio", "playAsync", created)]
                      ELSE Without(audioCalls, i)
       ELSE /\ audioCalls' = Without(audioCalls, i)
            /\ UNCHANGED <<loadedSounds, sound, nSounds>>
    /\ UNCHANGED isPlaying
    /\ AudioFrame

\* await this.sound.playAsync() settles, lines 76-78
PlayAsyncSettled(i, ok) ==
    /\ i \in DOMAIN audioCalls
    /\ audioCalls[i].pc = "playAsync"
    /\ ok => audioCalls[i].target \in loadedSounds
    /\ isPlaying' = IF ok THEN TRUE ELSE isPlaying
    /\ audioCalls' = Without(audioCalls, i)
    /\ UNCHANGED <<sound, loadedSounds, nSounds>>
    /\ AudioFrame

AudioNext ==
    \/ \E op \in AudioOps : AudioCalled(op)
    \/ \E i \in 1 .. MaxPending, ok \in BOOLEAN : StopAsyncSettled(i, ok)
    \/ \E i \in 1 .. MaxPending, ok \in BOOLEAN : UnloadAsyncSettled(i, ok)
    \/ \E i \in 1 .. MaxPending, ok \in BOOLEAN : DownloadAsyncSettled(i, ok)
    \/ \E i \in 1 .. MaxPending, ok \in BOOLEAN : CreateAsyncSettled(i, ok)
    \/ \E i \in 1 .. MaxPending, ok \in BOOLEAN : PlayAsyncSettled(i, ok)

SpecAudio == InitDistance /\ [][AudioNext]_vars

\* C30 as claimed: at most one sound is loaded at any time, every loaded
\* sound is the one the service refers to, and isPlaying is true only while
\* the service has a sound
C30_Claim ==
    /\ Cardinality(loadedSounds) <= 1
    /\ loadedSounds \subseteq {sound}
    /\ isPlaying => sound # NoSound

====
